---- MODULE Spec2Model ----
(***************************************************************************)
(* A model of the armiarma crawler runtime.                                *)
(*                                                                         *)
(*  - Spec / FairSpec: the Filecoin crawler of gossipsub.go (package       *)
(*    crawler): the discoveredPeers feed goroutine, the worker goroutines  *)
(*    of crawlNetwork, the blacklist and the root context.                 *)
(*  - StoreSpec: metrics.PeerStore of peerstore.go, called by concurrent   *)
(*    goroutines; every operation is a GetPeerData (Load) followed by a    *)
(*    StorePeer (Store), and the two are separate steps.                   *)
(***************************************************************************)
EXTENDS Integers, Sequences, FiniteSets, TLC

\* ------------------------------------------------------------------ bounds
\* number of worker goroutines (100 in the source) and channel capacity
workers == 2
\* the feed stops taking requests once its cursor reached this value
MaxPointer == 3
\* PeerStore callers stop starting operations after this many
MaxOps == 3

PeerIds == {"P1", "P2"}
\* the peer ids of bootstrapNodes
bootstrapNodes == {"P1"}
\* the zero value a receive on a closed chan string yields
ZeroPid == ""
Workers == 1..workers

\* ------------------------------------------------- the crawler's variables
VARIABLES
    db,          \* c.DB: peer id -> stored peer (domain = the stored ids)
    pArray,      \* discoveredPeers.pArray
    pointer,     \* Run's local cursor (0-based index of the next entry)
    refreshFlag, \* Run's local refreshFlag
    blacklist,   \* discoveredPeers.blacklist (the keys of the sync.Map)
    nPeerChan,   \* buffered chan string: the ids in flight, oldest first
    nPeerReq,    \* buffered chan struct{}: the number of tokens in flight
    chanClosed,  \* nPeerChan was closed
    reqClosed,   \* nPeerReq was closed
    ctxDone,     \* the root context was cancelled
    fpc,         \* where the feed goroutine is
    fpid,        \* the feed's local pid
    wpc,         \* where each worker goroutine is
    wpid,        \* each worker's pid
    wok,         \* each worker's ok of LoadFilecoinPeer
    wp,          \* each worker's loaded peer p
    werr         \* each worker's result of h.Connect ("" is nil)

crawlVars == <<db, pArray, pointer, refreshFlag, blacklist, nPeerChan, nPeerReq,
               chanClosed, reqClosed, ctxDone, fpc, fpid, wpc, wpid, wok, wp, werr>>

\* ------------------------------------------------ the PeerStore's variables
VARIABLES
    PeerStore,   \* PeerStore.PeerStore: peer id -> Peer (domain = stored ids)
    call,        \* per caller goroutine: the operation it is inside
    opsStarted,  \* operations started so far
    incDone,     \* per peer: completed attempt operations that found the peer
    rawWrites    \* per peer: completed writes of a caller-given (not loaded) Peer

storeVars == <<PeerStore, call, opsStarted, incDone, rawWrites>>

\* ------------------------------------------------ the message id's variables
VARIABLES
    gossip         \* the last two pubsub messages an id was computed for,
                   \* each with its id, the newest first

gossipVars == <<gossip>>

\* the message an id was last computed for, and that id, a sequence of
\* characters (empty before the first call)
pmsg == gossip[1].pmsg
msgId == IF gossip = <<>> THEN <<>> ELSE gossip[1].msgId
\* the message before pmsg, and its id
prevMsg == gossip[2].pmsg
prevId == IF Len(gossip) < 2 THEN <<>> ELSE gossip[2].msgId

vars == <<crawlVars, storeVars, gossipVars>>

\* ---------------------------------------------------------------- peers
\* a Peer as ExtractHostInfo builds it from an AddrInfo: no attempt history
ExtractHostInfo(info) ==
    [PeerId |-> info.ID, MAddrs |-> info.Addrs, Attempts |-> 0, Succeed |-> FALSE]

\* the zero Peer a failed load returns
ZeroPeer == [PeerId |-> ZeroPid, MAddrs |-> {}, Attempts |-> 0, Succeed |-> FALSE]

\* what fetchNeighbors may return: AddrInfos, with or without addresses
AddrInfos == {[ID |-> id, Addrs |-> a] : id \in PeerIds, a \in {{}, {"M"}}}
NeighborLists == {<<>>} \cup {<<n>> : n \in AddrInfos}

\* c.DB.LoadFilecoinPeer
LoadFilecoinPeer(d, id) ==
    IF id \in DOMAIN d THEN [p |-> d[id], ok |-> TRUE]
                       ELSE [p |-> ZeroPeer, ok |-> FALSE]

\* c.DB.StoreFilecoinPeer: write if absent, else merge the observed fields
StoreFilecoinPeer(d, id, peer) ==
    IF id \in DOMAIN d
    THEN [d EXCEPT ![id] = [@ EXCEPT !.MAddrs = peer.MAddrs]]
    ELSE d @@ (id :> peer)

RECURSIVE StoreAll(_, _)
StoreAll(d, infos) ==
    IF infos = <<>> THEN d
    ELSE StoreAll(StoreFilecoinPeer(d, Head(infos).ID, ExtractHostInfo(Head(infos))),
                  Tail(infos))

\* the results of h.Connect: nil or an error string
ConnectErrors == {"dial timeout", "protocol not supported"}
NilErr == ""

\* the classifier of error strings into the error taxonomy
FilterError(e) ==
    CASE e = "dial timeout" -> "dial-timeout"
      [] e = "protocol not supported" -> "protocol-not-supported"
      [] e = "connection reset by peer" -> "reset-by-peer"
      [] OTHER -> "unknown"

\* the kinds PrunePolicy treats as transient
TransientKinds == {"dial-timeout", "reset-by-peer", "i/o-deadline"}

\* ------------------------------------------------------------ the feed
\* the orders in which GetFilecoinPeers may list the stored ids
RECURSIVE Orders(_)
Orders(S) ==
    IF S = {} THEN {<<>>}
    ELSE UNION {{<<x>> \o o : o \in Orders(S \ {x})} : x \in S}

\* refreshPeerList: appends every stored id that loads to pArray
refreshPeerList(arr, d, order) == arr \o order

isBlacklisted(pid) == pid \in blacklist

\* a Blacklist that takes an id it already holds off the set
BlacklistToggles(bl, peerID) ==
    IF peerID \in bl THEN bl \ {peerID} ELSE bl \cup {peerID}

\* Blacklist: d.blacklist.Store(peerID, struct{}{}), the set afterwards
Blacklist(bl, peerID) == bl \cup {peerID}

\* a panic in any goroutine ends the process
Crashed == fpc = "panic" \/ \E w \in Workers : wpc[w] = "panic"

CrawlInit ==
    /\ \E persisted \in SUBSET bootstrapNodes :
         \* NewDiscoveryPeers refreshes from the DB as it is at start-up ...
         /\ \E o \in Orders(persisted) : pArray = refreshPeerList(<<>>, persisted, o)
         \* ... and then the bootstrap nodes are stored
         /\ db = [id \in bootstrapNodes |->
                    ExtractHostInfo([ID |-> id, Addrs |-> {"M"}])]
    /\ pointer = 0
    /\ refreshFlag = FALSE
    /\ blacklist = {}
    /\ nPeerChan = <<>>
    /\ nPeerReq = 0
    /\ chanClosed = FALSE
    /\ reqClosed = FALSE
    /\ ctxDone = FALSE
    /\ fpc = "select"
    /\ fpid = ZeroPid
    /\ wpc = [w \in Workers |-> "start"]
    /\ wpid = [w \in Workers |-> ZeroPid]
    /\ wok = [w \in Workers |-> FALSE]
    /\ wp = [w \in Workers |-> ZeroPeer]
    /\ werr = [w \in Workers |-> NilErr]

\* the crawler before crawlNetwork runs
CrawlIdle ==
    /\ db = <<>> /\ pArray = <<>> /\ pointer = 0 /\ refreshFlag = FALSE
    /\ blacklist = {} /\ nPeerChan = <<>> /\ nPeerReq = 0
    /\ chanClosed = FALSE /\ reqClosed = FALSE /\ ctxDone = FALSE
    /\ fpc = "select" /\ fpid = ZeroPid
    /\ wpc = [w \in Workers |-> "start"]
    /\ wpid = [w \in Workers |-> ZeroPid]
    /\ wok = [w \in Workers |-> FALSE]
    /\ wp = [w \in Workers |-> ZeroPeer]
    /\ werr = [w \in Workers |-> NilErr]

workerVars == <<wpc, wpid, wok, wp, werr>>
feedLocals == <<pArray, pointer, refreshFlag, fpc, fpid>>

\* case <-d.nPeerReq: the array is not empty
FeedRequest ==
    /\ ~Crashed /\ fpc = "select" /\ nPeerReq > 0
    /\ Len(pArray) # 0
    \* the cap stops the cursor, not a read that panics
    /\ pointer < MaxPointer \/ pointer >= Len(pArray)
    /\ nPeerReq' = nPeerReq - 1
    /\ IF pointer >= Len(pArray)
       THEN \* d.pArray[pointer]: index out of range
            /\ fpc' = "panic"
            /\ UNCHANGED <<fpid, pointer>>
       ELSE /\ fpid' = pArray[pointer + 1]
            /\ pointer' = pointer + 1
            /\ fpc' = IF isBlacklisted(pArray[pointer + 1]) THEN "reissue" ELSE "push"
    /\ UNCHANGED <<db, pArray, refreshFlag, blacklist, nPeerChan, chanClosed,
                   reqClosed, ctxDone, workerVars, storeVars, gossipVars>>

\* an empty-array branch without the sleep: re-issue and refresh at once
FeedRequestEmptyNoWait ==
    /\ ~Crashed /\ fpc = "select" /\ nPeerReq > 0 /\ pointer < MaxPointer
    /\ Len(pArray) = 0
    /\ refreshFlag' = TRUE
    /\ fpc' = "refresh"
    /\ UNCHANGED <<db, pArray, pointer, blacklist, nPeerChan, nPeerReq, chanClosed,
                   reqClosed, ctxDone, fpid, workerVars, storeVars, gossipVars>>

\* case <-d.nPeerReq: the array is empty
FeedRequestEmpty ==
    /\ ~Crashed /\ fpc = "select" /\ nPeerReq > 0 /\ pointer < MaxPointer
    /\ Len(pArray) = 0
    /\ nPeerReq' = nPeerReq - 1
    /\ fpc' = "sleep"
    /\ UNCHANGED <<db, pArray, pointer, refreshFlag, blacklist, nPeerChan, chanClosed,
                   reqClosed, ctxDone, fpid, workerVars, storeVars, gossipVars>>

\* the blacklisted entry: d.nPeerReq <- struct{}{}; continue
FeedReissue ==
    /\ ~Crashed /\ fpc = "reissue"
    /\ nPeerReq < workers
    /\ nPeerReq' = nPeerReq + 1
    /\ fpc' = "select"
    /\ UNCHANGED <<db, pArray, pointer, refreshFlag, blacklist, nPeerChan, chanClosed,
                   reqClosed, ctxDone, fpid, workerVars, storeVars, gossipVars>>

\* d.nPeerChan <- pid
FeedPush ==
    /\ ~Crashed /\ fpc = "push"
    /\ Len(nPeerChan) < workers
    /\ nPeerChan' = Append(nPeerChan, fpid)
    /\ fpc' = "refresh"
    /\ UNCHANGED <<db, pArray, pointer, refreshFlag, blacklist, nPeerReq, chanClosed,
                   reqClosed, ctxDone, fpid, workerVars, storeVars, gossipVars>>

\* time.Sleep(minWaitTime); d.ReqNextPeer(); refreshFlag = true
FeedSleep ==
    /\ ~Crashed /\ fpc = "sleep"
    /\ nPeerReq < workers
    /\ nPeerReq' = nPeerReq + 1
    /\ refreshFlag' = TRUE
    /\ fpc' = "refresh"
    /\ UNCHANGED <<db, pArray, pointer, blacklist, nPeerChan, chanClosed,
                   reqClosed, ctxDone, fpid, workerVars, storeVars, gossipVars>>

\* if refreshFlag || pointer >= len(d.pArray) { d.refreshPeerList() }
FeedRefresh ==
    /\ ~Crashed /\ fpc = "refresh"
    /\ IF refreshFlag \/ pointer >= Len(pArray)
       THEN \E o \in Orders(DOMAIN db) : pArray' = refreshPeerList(pArray, db, o)
       ELSE pArray' = pArray
    /\ fpc' = "select"
    /\ UNCHANGED <<db, pointer, refreshFlag, blacklist, nPeerChan, nPeerReq, chanClosed,
                   reqClosed, ctxDone, fpid, workerVars, storeVars, gossipVars>>

\* case <-d.ctx.Done(): close(d.nPeerChan)
FeedCloseChan ==
    /\ ~Crashed /\ fpc = "select" /\ ctxDone
    /\ chanClosed' = TRUE
    /\ fpc' = "closing"
    /\ UNCHANGED <<db, pArray, pointer, refreshFlag, blacklist, nPeerChan, nPeerReq,
                   reqClosed, ctxDone, fpid, workerVars, storeVars, gossipVars>>

\* close(d.nPeerReq); return
FeedCloseReq ==
    /\ ~Crashed /\ fpc = "closing"
    /\ reqClosed' = TRUE
    /\ fpc' = "done"
    /\ UNCHANGED <<db, pArray, pointer, refreshFlag, blacklist, nPeerChan, nPeerReq,
                   chanClosed, ctxDone, fpid, workerVars, storeVars, gossipVars>>

Feed ==
    \/ FeedRequest \/ FeedRequestEmpty \/ FeedReissue \/ FeedPush
    \/ FeedSleep \/ FeedRefresh \/ FeedCloseChan \/ FeedCloseReq

\* ---------------------------------------------------------- the workers
\* connectablePeers.ReqNextPeer() by worker w, which goes on at pc `next`
ReqNextPeer(w) ==
    /\ IF reqClosed
       THEN \* send on closed channel
            /\ wpc' = [wpc EXCEPT ![w] = "panic"]
            /\ UNCHANGED <<nPeerReq, wpid, wok, wp, werr>>
       ELSE /\ nPeerReq < workers
            /\ nPeerReq' = nPeerReq + 1
            /\ wpc' = [wpc EXCEPT ![w] = "select"]
            /\ wpid' = [wpid EXCEPT ![w] = ZeroPid]
            /\ wok' = [wok EXCEPT ![w] = FALSE]
            /\ wp' = [wp EXCEPT ![w] = ZeroPeer]
            /\ werr' = [werr EXCEPT ![w] = NilErr]
    /\ UNCHANGED <<db, blacklist, nPeerChan, chanClosed, reqClosed, ctxDone,
                   feedLocals, storeVars, gossipVars>>

\* the first request of a worker
WorkerStart(w) ==
    /\ ~Crashed /\ wpc[w] = "start"
    /\ ReqNextPeer(w)

\* AfterLoad without the test of len(maddr.Addrs)
AfterLoadDialsAnyway(p) == "connect"

\* lines 354-358: a peer without addresses is not dialed
AfterLoad(p) == IF Cardinality(p.MAddrs) = 0 THEN "noaddr" ELSE "connect"

\* case pid := <-npeer: load the peer, build maddr, branch on its addresses
WorkerRecv(w) ==
    /\ ~Crashed /\ wpc[w] = "select"
    /\ \E pid \in PeerIds \cup {ZeroPid} :
         /\ \/ nPeerChan # <<>> /\ pid = Head(nPeerChan) /\ nPeerChan' = Tail(nPeerChan)
            \/ nPeerChan = <<>> /\ chanClosed /\ pid = ZeroPid /\ nPeerChan' = nPeerChan
         /\ wpid' = [wpid EXCEPT ![w] = pid]
         /\ wok' = [wok EXCEPT ![w] = LoadFilecoinPeer(db, pid).ok]
         /\ wp' = [wp EXCEPT ![w] = LoadFilecoinPeer(db, pid).p]
         /\ wpc' = [wpc EXCEPT ![w] = AfterLoad(LoadFilecoinPeer(db, pid).p)]
    /\ UNCHANGED <<db, blacklist, nPeerReq, chanClosed, reqClosed, ctxDone,
                   feedLocals, werr, storeVars, gossipVars>>

\* case <-c.ctx.Done(): return
WorkerDone(w) ==
    /\ ~Crashed /\ wpc[w] = "select" /\ ctxDone
    /\ wpc' = [wpc EXCEPT ![w] = "done"]
    /\ UNCHANGED <<db, blacklist, nPeerChan, nPeerReq, chanClosed, reqClosed, ctxDone,
                   feedLocals, wpid, wok, wp, werr, storeVars, gossipVars>>

\* a no-address branch that falls through to the request at the end of the
\* cycle: two requests for one item
WorkerNoAddrRequestsTwice(w) ==
    /\ ~Crashed /\ wpc[w] = "noaddr" /\ ~reqClosed
    /\ nPeerReq + 1 < workers
    /\ nPeerReq' = nPeerReq + 2
    /\ wpc' = [wpc EXCEPT ![w] = "select"]
    /\ wpid' = [wpid EXCEPT ![w] = ZeroPid]
    /\ wok' = [wok EXCEPT ![w] = FALSE]
    /\ wp' = [wp EXCEPT ![w] = ZeroPeer]
    /\ werr' = [werr EXCEPT ![w] = NilErr]
    /\ UNCHANGED <<db, blacklist, nPeerChan, chanClosed, reqClosed, ctxDone,
                   feedLocals, storeVars, gossipVars>>

\* time.Sleep(1 * time.Second); connectablePeers.ReqNextPeer(); continue
WorkerNoAddr(w) ==
    /\ ~Crashed /\ wpc[w] = "noaddr"
    /\ ReqNextPeer(w)

\* h.Connect(c.ctx, maddr) returns an error: connectablePeers.Blacklist(pid)
WorkerConnectFailed(w) ==
    /\ ~Crashed /\ wpc[w] = "connect"
    /\ \E e \in ConnectErrors : werr' = [werr EXCEPT ![w] = e]
    /\ blacklist' = Blacklist(blacklist, wpid[w])
    /\ wpc' = [wpc EXCEPT ![w] = "req"]
    /\ UNCHANGED <<db, nPeerChan, nPeerReq, chanClosed, reqClosed, ctxDone,
                   feedLocals, wpid, wok, wp, storeVars, gossipVars>>

\* h.Connect returns nil: store the connected peer, fetch and store its
\* neighbours
WorkerConnected(w) ==
    /\ ~Crashed /\ wpc[w] = "connect"
    /\ \E nbrs \in NeighborLists :
         db' = StoreAll(db, <<[ID |-> wpid[w], Addrs |-> wp[w].MAddrs]>> \o nbrs)
    /\ werr' = [werr EXCEPT ![w] = NilErr]
    /\ wpc' = [wpc EXCEPT ![w] = "req"]
    /\ UNCHANGED <<blacklist, nPeerChan, nPeerReq, chanClosed, reqClosed, ctxDone,
                   feedLocals, wpid, wok, wp, storeVars, gossipVars>>

\* always after finishing, request new peer
WorkerReq(w) ==
    /\ ~Crashed /\ wpc[w] = "req"
    /\ ReqNextPeer(w)

Worker(w) ==
    \/ WorkerStart(w) \/ WorkerRecv(w) \/ WorkerDone(w) \/ WorkerNoAddr(w)
    \/ WorkerConnectFailed(w) \/ WorkerConnected(w) \/ WorkerReq(w)

\* <-signal_channel; c.cancel()
Cancel ==
    /\ ~Crashed /\ ~ctxDone
    /\ ctxDone' = TRUE
    /\ UNCHANGED <<db, blacklist, nPeerChan, nPeerReq, chanClosed, reqClosed,
                   feedLocals, workerVars, storeVars, gossipVars>>


CrawlNext == Feed \/ Cancel \/ \E w \in Workers : Worker(w)

\* ================================================= metrics.PeerStore
Callers == {"g1", "g2"}
UserAgents == {"ua1", "ua2"}
ErrStrings == {"dial timeout", "protocol not supported"}

\* a Peer as a caller builds it for a peer it has just seen
NewPeer(id, ua) ==
    [PeerId |-> id, UserAgent |-> ua, Attempts |-> 0, Attempted |-> FALSE,
     Succeed |-> FALSE, Error |-> "", NegAttempts |-> 0,
     MetadataRequest |-> FALSE, MetadataSucceed |-> FALSE,
     Connections |-> 0, Disconnections |-> 0, Msgs |-> 0]

\* GetPeerData
GetPeerData(store, id) ==
    IF id \in DOMAIN store THEN [peer |-> store[id], err |-> FALSE]
                           ELSE [peer |-> NewPeer("", ""), err |-> TRUE]

\* PeerStoreStorage.Store
Store(store, id, peer) ==
    IF id \in DOMAIN store THEN [store EXCEPT ![id] = peer] ELSE store @@ (id :> peer)

\* the ErrorHandling callback: the prune policy logs the negative attempt
ErrorHandlingFn(p) == [p EXCEPT !.NegAttempts = @ + 1]

\* Peer.AddPositiveConnAttempt: clean the negative attempt list
AddPositiveConnAttempt(p) == [p EXCEPT !.NegAttempts = 0]

\* AddNewNegConnectionAttempt, lines 119-126, on the loaded p
NegConnectionAttempt(p, rec_err) ==
    LET p1 == [p EXCEPT !.Attempts = @ + 1]
        p2 == IF ~p1.Attempted
              THEN [p1 EXCEPT !.Attempted = TRUE, !.Error = FilterError(rec_err)]
              ELSE p1
    IN  ErrorHandlingFn(p2)

\* PosConnectionAttempt without the update of Attempted
PosConnectionAttemptNoAttempted(p) ==
    AddPositiveConnAttempt([p EXCEPT !.Attempts = @ + 1, !.Succeed = TRUE,
                                     !.Error = "None"])

\* AddNewPosConnectionAttempt, lines 141-149, on the loaded p
PosConnectionAttempt(p) ==
    LET p1 == [p EXCEPT !.Attempts = @ + 1]
        p2 == IF ~p1.Attempted THEN [p1 EXCEPT !.Attempted = TRUE] ELSE p1
    IN  AddPositiveConnAttempt([p2 EXCEPT !.Succeed = TRUE, !.Error = "None"])

\* Peer.ConnectionAttemptEvent
PeerConnectionAttemptEvent(p, succeed, conErr) ==
    LET p1 == [p EXCEPT !.Attempts = @ + 1, !.Attempted = TRUE]
    IN  IF succeed THEN [p1 EXCEPT !.Succeed = TRUE, !.Error = "None"]
                   ELSE [p1 EXCEPT !.Error = FilterError(conErr)]

\* Peer.ConnectionEvent, Peer.DisconnectionEvent, Peer.MessageEvent
PeerConnectionEvent(p) == [p EXCEPT !.Connections = @ + 1]
PeerDisconnectionEvent(p) == [p EXCEPT !.Disconnections = @ + 1]
PeerMessageEvent(p) == [p EXCEPT !.Msgs = @ + 1]

\* MetadataEvent, lines 183-186, on the loaded peer
PeerMetadataEvent(p, success) ==
    [p EXCEPT !.MetadataRequest = TRUE,
              !.MetadataSucceed = IF success THEN TRUE ELSE @]

\* Peer.FetchPeerInfoFromPeer: the observed fields of the new peer overwrite
FetchPeerInfoFromPeer(old, new) == [old EXCEPT !.UserAgent = new.UserAgent]

\* Peer.ResetDynamicMetrics
PeerResetDynamicMetrics(p) ==
    [p EXCEPT !.Connections = 0, !.Disconnections = 0, !.Msgs = 0]

\* the operations that load a peer, change it and store it
EventOps == {"AddNewNegConnectionAttempt", "AddNewPosConnectionAttempt",
             "ConnectionEvent", "DisconnectionEvent", "MetadataEvent",
             "ConnectionAttemptEvent", "MessageEvent"}
AttemptOps == {"AddNewNegConnectionAttempt", "AddNewPosConnectionAttempt",
               "ConnectionAttemptEvent"}

\* the arguments of an operation besides the peer id
OpArgs(op) ==
    CASE op = "AddNewNegConnectionAttempt" ->
             {[succeed |-> FALSE, err |-> e] : e \in ErrStrings}
      [] op = "ConnectionAttemptEvent" ->
             {[succeed |-> FALSE, err |-> e] : e \in ErrStrings}
                 \cup {[succeed |-> TRUE, err |-> ""]}
      [] op = "MetadataEvent" -> {[succeed |-> b, err |-> ""] : b \in BOOLEAN}
      [] OTHER -> {[succeed |-> TRUE, err |-> ""]}

\* what an event operation stores for the peer it loaded
Apply(op, p, arg) ==
    CASE op = "AddNewNegConnectionAttempt" -> NegConnectionAttempt(p, arg.err)
      [] op = "AddNewPosConnectionAttempt" -> PosConnectionAttempt(p)
      [] op = "ConnectionAttemptEvent" ->
             PeerConnectionAttemptEvent(p, arg.succeed, arg.err)
      [] op = "ConnectionEvent" -> PeerConnectionEvent(p)
      [] op = "DisconnectionEvent" -> PeerDisconnectionEvent(p)
      [] op = "MetadataEvent" -> PeerMetadataEvent(p, arg.succeed)
      [] op = "MessageEvent" -> PeerMessageEvent(p)

Idle == [op |-> "idle", id |-> "", peer |-> NewPeer("", ""), new |-> NewPeer("", ""),
         arg |-> [succeed |-> FALSE, err |-> ""], todo |-> {}]

Bump(n) == IF n < 2 THEN n + 1 ELSE n

\* a PeerStore nobody uses
StoreIdle ==
    /\ PeerStore = <<>>
    /\ call = [g \in Callers |-> Idle]
    /\ opsStarted = 0
    /\ incDone = [id \in PeerIds |-> 0]
    /\ rawWrites = [id \in PeerIds |-> 0]

StoreInit ==
    /\ \E persisted \in SUBSET {"P1"} :
         PeerStore = [id \in persisted |-> NewPeer(id, "ua1")]
    /\ call = [g \in Callers |-> Idle]
    /\ opsStarted = 0
    /\ incDone = [id \in PeerIds |-> 0]
    /\ rawWrites = [id \in PeerIds |-> IF id \in DOMAIN PeerStore THEN 1 ELSE 0]

\* StorePeer(peer)
StorePeer(g, id, ua) ==
    /\ call[g].op = "idle" /\ opsStarted < MaxOps
    /\ PeerStore' = Store(PeerStore, id, NewPeer(id, ua))
    /\ rawWrites' = [rawWrites EXCEPT ![id] = Bump(@)]
    /\ opsStarted' = opsStarted + 1
    /\ UNCHANGED <<call, incDone, crawlVars, gossipVars>>

\* an event operation: peer, err := c.GetPeerData(peerId), peer found
EventLoad(g, op, id, arg) ==
    /\ call[g].op = "idle" /\ opsStarted < MaxOps
    /\ ~GetPeerData(PeerStore, id).err
    /\ call' = [call EXCEPT ![g] = [Idle EXCEPT !.op = op, !.id = id,
                                    !.peer = GetPeerData(PeerStore, id).peer,
                                    !.arg = arg]]
    /\ opsStarted' = opsStarted + 1
    /\ UNCHANGED <<PeerStore, incDone, rawWrites, crawlVars, gossipVars>>

\* an event operation that ignores the error of GetPeerData and goes on
\* with the empty Peer it got
EventNotFoundStoresEmpty(g, op, id, arg) ==
    /\ call[g].op = "idle" /\ opsStarted < MaxOps
    /\ GetPeerData(PeerStore, id).err
    /\ PeerStore' = Store(PeerStore, id, Apply(op, GetPeerData(PeerStore, id).peer, arg))
    /\ call' = [call EXCEPT ![g] = [Idle EXCEPT !.op = "NotFound", !.id = id]]
    /\ opsStarted' = opsStarted + 1
    /\ UNCHANGED <<incDone, rawWrites, crawlVars, gossipVars>>

\* an event operation on a peer that is not in the store: GetPeerData
\* gives the error
EventNotFound(g, op, id, arg) ==
    /\ call[g].op = "idle" /\ opsStarted < MaxOps
    /\ GetPeerData(PeerStore, id).err
    /\ call' = [call EXCEPT ![g] = [Idle EXCEPT !.op = "NotFound", !.id = id]]
    /\ opsStarted' = opsStarted + 1
    /\ UNCHANGED <<PeerStore, incDone, rawWrites, crawlVars, gossipVars>>

\* if err != nil { return an error }
EventReturnError(g) ==
    /\ call[g].op = "NotFound"
    /\ call' = [call EXCEPT ![g] = Idle]
    /\ UNCHANGED <<PeerStore, opsStarted, incDone, rawWrites, crawlVars, gossipVars>>

\* an event operation: change the loaded peer, c.StorePeer(peer), return nil
EventStore(g) ==
    /\ call[g].op \in EventOps
    /\ PeerStore' = Store(PeerStore, call[g].id,
                          Apply(call[g].op, call[g].peer, call[g].arg))
    /\ incDone' = IF call[g].op \in AttemptOps
                  THEN [incDone EXCEPT ![call[g].id] = @ + 1] ELSE incDone
    /\ call' = [call EXCEPT ![g] = Idle]
    /\ UNCHANGED <<opsStarted, rawWrites, crawlVars, gossipVars>>

\* StoreOrUpdatePeer that stores the new peer also over a stored one
StoreOrUpdateValueOverwrites(oldPeer, peer, found) == peer

\* StoreOrUpdatePeer, lines 86-92: the Peer that is stored
StoreOrUpdateValue(oldPeer, peer, found) ==
    IF found THEN FetchPeerInfoFromPeer(oldPeer, peer) ELSE peer

\* StoreOrUpdatePeer: oldPeer, err := c.GetPeerData(peer.PeerId)
StoreOrUpdateLoad(g, id, ua) ==
    /\ call[g].op = "idle" /\ opsStarted < MaxOps
    /\ call' = [call EXCEPT ![g] =
                  [Idle EXCEPT !.op = IF GetPeerData(PeerStore, id).err
                                      THEN "StoreNew" ELSE "StoreMerged",
                               !.id = id,
                               !.peer = GetPeerData(PeerStore, id).peer,
                               !.new = NewPeer(id, ua)]]
    /\ opsStarted' = opsStarted + 1
    /\ UNCHANGED <<PeerStore, incDone, rawWrites, crawlVars, gossipVars>>

\* StoreOrUpdatePeer: c.PeerStore.Store(peer.PeerId, peer or oldPeer)
StoreOrUpdateStore(g) ==
    /\ call[g].op \in {"StoreNew", "StoreMerged"}
    /\ PeerStore' = Store(PeerStore, call[g].id,
                          StoreOrUpdateValue(call[g].peer, call[g].new,
                                             call[g].op = "StoreMerged"))
    /\ rawWrites' = IF call[g].op = "StoreNew"
                    THEN [rawWrites EXCEPT ![call[g].id] = Bump(@)] ELSE rawWrites
    /\ call' = [call EXCEPT ![g] = Idle]
    /\ UNCHANGED <<opsStarted, incDone, crawlVars, gossipVars>>

\* a Blacklist that also drops the peer's record
BlacklistPeerDeletes(g, id) ==
    /\ call[g].op = "idle" /\ opsStarted < MaxOps
    /\ blacklist' = Blacklist(blacklist, id)
    /\ PeerStore' = [k \in DOMAIN PeerStore \ {id} |-> PeerStore[k]]
    /\ opsStarted' = opsStarted + 1
    /\ UNCHANGED <<call, incDone, rawWrites, gossipVars>>
    /\ UNCHANGED <<db, nPeerChan, nPeerReq, chanClosed, reqClosed, ctxDone,
                   workerVars, feedLocals>>

\* discoveredPeers.Blacklist(id), called while the store is in use
BlacklistPeer(g, id) ==
    /\ call[g].op = "idle" /\ opsStarted < MaxOps
    /\ blacklist' = Blacklist(blacklist, id)
    /\ opsStarted' = opsStarted + 1
    /\ UNCHANGED <<PeerStore, call, incDone, rawWrites, gossipVars>>
    /\ UNCHANGED <<db, nPeerChan, nPeerReq, chanClosed, reqClosed, ctxDone,
                   workerVars, feedLocals>>

\* ResetDynamicMetrics: c.PeerStore.Range starts
ResetBegin(g) ==
    /\ call[g].op = "idle" /\ opsStarted < MaxOps
    /\ call' = [call EXCEPT ![g] = IF DOMAIN PeerStore = {} THEN Idle
                                   ELSE [Idle EXCEPT !.op = "Range",
                                                     !.todo = DOMAIN PeerStore]]
    /\ opsStarted' = opsStarted + 1
    /\ UNCHANGED <<PeerStore, incDone, rawWrites, crawlVars, gossipVars>>

\* Range hands the next key and its value to the callback
ResetVisit(g) ==
    /\ call[g].op = "Range"
    /\ \E k \in call[g].todo :
         call' = [call EXCEPT ![g] = [@ EXCEPT !.op = "RangeStore", !.id = k,
                                               !.peer = PeerStore[k],
                                               !.todo = @ \ {k}]]
    /\ UNCHANGED <<PeerStore, opsStarted, incDone, rawWrites, crawlVars, gossipVars>>

\* a callback that stores the value without resetting it
ResetStoreKeepsCounters(g) ==
    /\ call[g].op = "RangeStore"
    /\ PeerStore' = Store(PeerStore, call[g].id, call[g].peer)
    /\ call' = [call EXCEPT ![g] = IF call[g].todo = {} THEN Idle
                                   ELSE [Idle EXCEPT !.op = "Range",
                                                     !.todo = call[g].todo]]
    /\ UNCHANGED <<opsStarted, incDone, rawWrites, crawlVars, gossipVars>>

\* the callback: value.ResetDynamicMetrics(); c.PeerStore.Store(key, value)
ResetStore(g) ==
    /\ call[g].op = "RangeStore"
    /\ PeerStore' = Store(PeerStore, call[g].id, PeerResetDynamicMetrics(call[g].peer))
    /\ call' = [call EXCEPT ![g] = IF call[g].todo = {} THEN Idle
                                   ELSE [Idle EXCEPT !.op = "Range",
                                                     !.todo = call[g].todo]]
    /\ UNCHANGED <<opsStarted, incDone, rawWrites, crawlVars, gossipVars>>

StoreNext ==
    \E g \in Callers :
        \/ \E id \in PeerIds, ua \in UserAgents : StorePeer(g, id, ua)
        \/ \E id \in PeerIds, ua \in UserAgents : StoreOrUpdateLoad(g, id, ua)
        \/ StoreOrUpdateStore(g)
        \/ \E op \in EventOps, id \in PeerIds :
             \E arg \in OpArgs(op) : EventLoad(g, op, id, arg)
        \/ \E op \in EventOps, id \in PeerIds :
             \E arg \in OpArgs(op) : EventNotFound(g, op, id, arg)
        \/ EventReturnError(g)
        \/ EventStore(g)
        \/ ResetBegin(g)
        \/ ResetVisit(g)
        \/ ResetStore(g)
        \/ \E id \in PeerIds : BlacklistPeer(g, id)

\* ------------------------------------------------------- the message id
\* a 32-bit word is the sequence of its bits, highest first
Pow2(n) == 2^n
Bits16(n) == [i \in 1..16 |-> (n \div Pow2(16 - i)) % 2] \o <<>>
Word(hl) == Bits16(hl[1]) \o Bits16(hl[2])
RECURSIVE Val(_)
Val(bits) == IF bits = <<>> THEN 0
             ELSE 2 * Val(SubSeq(bits, 1, Len(bits) - 1)) + bits[Len(bits)]
Hi(w) == Val(SubSeq(w, 1, 16))
Lo(w) == Val(SubSeq(w, 17, 32))
\* the sum modulo 2^32 of a sequence of words
RECURSIVE SumHi(_)
SumHi(ws) == IF ws = <<>> THEN 0 ELSE Hi(Head(ws)) + SumHi(Tail(ws))
RECURSIVE SumLo(_)
SumLo(ws) == IF ws = <<>> THEN 0 ELSE Lo(Head(ws)) + SumLo(Tail(ws))
AddW(ws) == LET lo == SumLo(ws)
                hi == SumHi(ws) + (lo \div 65536)
            IN  Bits16(hi % 65536) \o Bits16(lo % 65536)
XorW(a, b) == [i \in 1..32 |-> (a[i] + b[i]) % 2] \o <<>>
AndW(a, b) == [i \in 1..32 |-> a[i] * b[i]] \o <<>>
NotW(a) == [i \in 1..32 |-> 1 - a[i]] \o <<>>
RotR(a, n) == [i \in 1..32 |-> a[((i - 1 - n) % 32) + 1]] \o <<>>
ShR(a, n) == [i \in 1..32 |-> IF i <= n THEN 0 ELSE a[i - n]] \o <<>>

\* the round constants and the initial hash value of SHA-256, as 16-bit halves
K256 == 
    <<<<17034, 12184>>, <<28983, 17553>>, <<46528, 64463>>, <<59829, 56229>>,
    <<14678, 49755>>, <<23025, 4593>>, <<37439, 33444>>, <<43804, 24277>>,
    <<55303, 43672>>, <<4739, 23297>>, <<9265, 34238>>, <<21772, 32195>>,
    <<29374, 23924>>, <<32990, 45566>>, <<39900, 1703>>, <<49563, 61812>>,
    <<58523, 27073>>, <<61374, 18310>>, <<4033, 40390>>, <<9228, 41420>>,
    <<11753, 11375>>, <<19060, 33962>>, <<23728, 43484>>, <<30457, 35034>>,
    <<38974, 20818>>, <<43057, 50797>>, <<45059, 10184>>, <<48985, 32711>>,
    <<50912, 3059>>, <<54695, 37191>>, <<1738, 25425>>, <<5161, 10599>>,
    <<10167, 2693>>, <<11803, 8504>>, <<19756, 28156>>, <<21304, 3347>>,
    <<25866, 29524>>, <<30314, 2747>>, <<33218, 51502>>, <<37490, 11397>>,
    <<41663, 59553>>, <<43034, 26187>>, <<49739, 35696>>, <<51052, 20899>>,
    <<53650, 59417>>, <<54937, 1572>>, <<62478, 13701>>, <<4202, 41072>>,
    <<6564, 49430>>, <<7735, 27656>>, <<10056, 30540>>, <<13488, 48309>>,
    <<14620, 3251>>, <<20184, 43594>>, <<23452, 51791>>, <<26670, 28659>>,
    <<29839, 33518>>, <<30885, 25455>>, <<33992, 30740>>, <<36039, 520>>,
    <<37054, 65530>>, <<42064, 27883>>, <<48889, 41975>>, <<50801, 30962>>>>
H256 == 
    <<<<27145, 58983>>, <<47975, 44677>>, <<15470, 62322>>, <<42319, 62778>>,
    <<20750, 21119>>, <<39685, 26764>>, <<8067, 55723>>, <<23520, 52505>>>>

Ch(x, y, z) == XorW(AndW(x, y), AndW(NotW(x), z))
Maj(x, y, z) == XorW(XorW(AndW(x, y), AndW(x, z)), AndW(y, z))
BigSigma0(x) == XorW(XorW(RotR(x, 2), RotR(x, 13)), RotR(x, 22))
BigSigma1(x) == XorW(XorW(RotR(x, 6), RotR(x, 11)), RotR(x, 25))
SmallSigma0(x) == XorW(XorW(RotR(x, 7), RotR(x, 18)), ShR(x, 3))
SmallSigma1(x) == XorW(XorW(RotR(x, 17), RotR(x, 19)), ShR(x, 10))

\* the padded message: 0x80, zeros, the length in bits as 8 bytes
Zeros(n) == [i \in 1..n |-> 0] \o <<>>
PadMessage(data) ==
    LET l == Len(data)
        z == (119 - l) % 64
    IN  data \o <<128>> \o Zeros(z) \o Zeros(6) \o <<(8 * l) \div 256, (8 * l) % 256>>

ByteBits(b) == [i \in 1..8 |-> (b \div Pow2(8 - i)) % 2] \o <<>>
\* the 16 words of the block that starts after byte off
BlockWords(bytes, off) ==
    [t \in 1..16 |-> ByteBits(bytes[off + 4 * t - 3]) \o ByteBits(bytes[off + 4 * t - 2])
                     \o ByteBits(bytes[off + 4 * t - 1]) \o ByteBits(bytes[off + 4 * t])]
        \o <<>>

\* the message schedule, extended to 64 words
RECURSIVE Schedule(_)
Schedule(w) ==
    IF Len(w) = 64 THEN w
    ELSE LET t == Len(w) + 1
         IN  Schedule(Append(w, AddW(<<SmallSigma1(w[t - 2]), w[t - 7],
                                       SmallSigma0(w[t - 15]), w[t - 16]>>)))

\* round t on the working variables v = <<a, b, c, d, e, f, g, h>>
Round(v, w, t) ==
    LET t1 == AddW(<<v[8], BigSigma1(v[5]), Ch(v[5], v[6], v[7]),
                     Word(K256[t]), w[t]>>)
        t2 == AddW(<<BigSigma0(v[1]), Maj(v[1], v[2], v[3])>>)
    IN  <<AddW(<<t1, t2>>), v[1], v[2], v[3], AddW(<<v[4], t1>>), v[5], v[6], v[7]>>

\* the eight working variables after rounds t..64
RECURSIVE Rounds(_, _, _)
Rounds(v, w, t) ==
    IF Len(v) # 8 \/ t > 64 THEN v ELSE Rounds(Round(v, w, t), w, t + 1)

Compress(h, block) ==
    LET v == Rounds(h, Schedule(block), 1)
    IN  [i \in 1..8 |-> AddW(<<h[i], v[i]>>)] \o <<>>

RECURSIVE Blocks(_, _, _)
Blocks(h, bytes, off) ==
    IF off >= Len(bytes) THEN h
    ELSE Blocks(Compress(h, BlockWords(bytes, off)), bytes, off + 64)

WordBytes(w) == [i \in 1..4 |-> Val(SubSeq(w, 8 * i - 7, 8 * i))] \o <<>>
\* sha256: h.Write(data); h.Sum(nil), the 32 bytes of the digest
Sum256(data) ==
    LET h == Blocks([i \in 1..8 |-> Word(H256[i])] \o <<>>, PadMessage(data), 0)
    IN  WordBytes(h[1]) \o WordBytes(h[2]) \o WordBytes(h[3]) \o WordBytes(h[4])
        \o WordBytes(h[5]) \o WordBytes(h[6]) \o WordBytes(h[7]) \o WordBytes(h[8])

\* base64.URLEncoding: the URL-safe alphabet with the standard padding
encodeURL ==
    <<"A", "B", "C", "D", "E", "F", "G", "H", "I", "J", "K", "L", "M",
      "N", "O", "P", "Q", "R", "S", "T", "U", "V", "W", "X", "Y", "Z",
      "a", "b", "c", "d", "e", "f", "g", "h", "i", "j", "k", "l", "m",
      "n", "o", "p", "q", "r", "s", "t", "u", "v", "w", "x", "y", "z",
      "0", "1", "2", "3", "4", "5", "6", "7", "8", "9", "-", "_">>
StdPadding == "="
URLEncoding == [encode |-> encodeURL, padChar |-> StdPadding]

\* Encoding.EncodeToString: three bytes give four characters, a last group
\* of one or two bytes is padded to four
RECURSIVE EncodeToString(_, _)
EncodeToString(enc, src) ==
    LET n == Len(src)
        val == (IF n >= 1 THEN src[1] * 65536 ELSE 0)
               + (IF n >= 2 THEN src[2] * 256 ELSE 0)
               + (IF n >= 3 THEN src[3] ELSE 0)
        c(k) == enc.encode[((val \div Pow2(6 * (4 - k))) % 64) + 1]
    IN  CASE n = 0 -> <<>>
          [] n = 1 -> <<c(1), c(2), enc.padChar, enc.padChar>>
          [] n = 2 -> <<c(1), c(2), c(3), enc.padChar>>
          [] OTHER -> <<c(1), c(2), c(3), c(4)>>
                      \o EncodeToString(enc, SubSeq(src, 4, n))

\* Encoding.DecodeString, on a string EncodeToString can give
RECURSIVE DecodeString(_, _)
DecodeString(enc, str) ==
    IF str = <<>> THEN <<>>
    ELSE LET d(k) == IF str[k] = enc.padChar THEN 0
                     ELSE (CHOOSE i \in 1..64 : enc.encode[i] = str[k]) - 1
             val == d(1) * 262144 + d(2) * 4096 + d(3) * 64 + d(4)
             bytes == <<val \div 65536, (val \div 256) % 256, val % 256>>
             n == IF str[3] = enc.padChar THEN 1
                  ELSE IF str[4] = enc.padChar THEN 2 ELSE 3
         IN  SubSeq(bytes, 1, n) \o DecodeString(enc, SubSeq(str, 5, Len(str)))

\* the pubsub messages: sender, sequence number, topic and data
DataSet == {<<>>, <<97>>, <<97, 98, 99>>}
Seqnos == {1, 2}
Topics == {"blocks", "msgs"}
Messages == [From : PeerIds, Seqno : Seqnos, Topic : Topics, Data : DataSet]

\* the digests of the data in DataSet
Digest == [data \in DataSet |-> Sum256(data)]

\* an id made of the sender and the sequence number
MsgIDFromSeqno(m) == <<m.From, m.Seqno>>

\* MsgIDFunction: h.Write(pmsg.Data); id := h.Sum(nil);
\* base64.URLEncoding.EncodeToString(id)
MsgIDFunction(m) == EncodeToString(URLEncoding, Digest[m.Data])

GossipIdle == gossip = <<>>
GossipInit == GossipIdle

\* the pubsub service computes the id of a message
ComputeMsgID(m) ==
    /\ gossip' = SubSeq(<<[pmsg |-> m, msgId |-> MsgIDFunction(m)]>> \o gossip,
                        1, IF gossip = <<>> THEN 1 ELSE 2)
    /\ UNCHANGED <<crawlVars, storeVars>>

GossipNext == \E m \in Messages : ComputeMsgID(m)

\* ------------------------------------------------------ specifications
Init == CrawlInit /\ StoreIdle /\ GossipIdle
Next == CrawlNext
Spec == Init /\ [][Next]_vars

\* the goroutines are scheduled fairly; a select with several ready cases
\* takes each of them again and again
Fairness ==
    /\ WF_vars(Feed)
    /\ SF_vars(FeedCloseChan)
    /\ \A w \in Workers : WF_vars(Worker(w)) /\ SF_vars(WorkerDone(w))
FairSpec == Init /\ [][Next]_vars /\ Fairness

StoreSpecInit == StoreInit /\ CrawlIdle /\ GossipIdle
StoreSpec == StoreSpecInit /\ [][StoreNext]_vars

GossipSpecInit == GossipInit /\ CrawlIdle /\ StoreIdle
GossipSpec == GossipSpecInit /\ [][GossipNext]_vars


\* =============================================================== claims

\* a caller is between the load and the store of an operation on peer id
InFlight(id) == \E g \in Callers : call[g].op \notin {"idle", "Range"} /\ call[g].id = id

\* C1: operations on the same peer are atomic, so no increment is lost: once
\* every operation on a peer has returned, the stored attempts of a peer that
\* was written as a new record once is the number of attempt operations that
\* completed on it.
C1_NoLostIncrement ==
    \A id \in DOMAIN PeerStore :
        (rawWrites[id] = 1 /\ ~InFlight(id)) => PeerStore[id].Attempts = incDone[id]

\* C2: once Blacklist(p) has returned, the feed does not push p on its output
\* channel any more and no worker starts a dial of p.
C2_BlacklistedNeverEmitted ==
    [][/\ Len(nPeerChan') > Len(nPeerChan)
            => nPeerChan'[Len(nPeerChan')] \notin blacklist
       /\ \A w \in Workers :
            (wpc[w] = "select" /\ wpc'[w] = "connect") => wpid'[w] \notin blacklist
      ]_vars

\* C3: no worker ever sends on the request channel after it was closed (the
\* send panics), and only the feed closes the channels.
C3_NoSendOnClosed ==
    /\ \A w \in Workers : wpc[w] # "panic"
    /\ (chanClosed \/ reqClosed) => fpc \in {"closing", "done"}

\* C4: after the root context is cancelled, the feed and every worker
\* eventually return.
C4_AllTerminate ==
    ctxDone ~> (fpc = "done" /\ \A w \in Workers : wpc[w] = "done")

\* C5: a dial that fails with a transient error does not put the peer on the
\* blacklist.
C5_TransientNotBlacklisted ==
    [][\A w \in Workers :
         (/\ wpc[w] = "connect" /\ wpc'[w] = "req"
          /\ werr'[w] # NilErr /\ FilterError(werr'[w]) \in TransientKinds)
         => (wpid[w] \in blacklist' => wpid[w] \in blacklist)
      ]_vars

\* C6: when a worker has handled the outcome of its dial of P, the stored
\* attempts of P are one more than in the record the worker loaded, and
\* succeed is set after a successful dial.
C6_AttemptRecorded ==
    \A w \in Workers :
        wpc[w] = "req" =>
            /\ wpid[w] \in DOMAIN db
            /\ db[wpid[w]].Attempts = wp[w].Attempts + 1
            /\ (werr[w] = NilErr => db[wpid[w]].Succeed)

\* C7: a worker that receives the id of a peer stored without addresses does
\* not dial it: it goes to the no-address branch, and from there it only
\* calls ReqNextPeer, once, which adds one request (or panics on the closed
\* channel); the blacklist and the store stay as they are.
C7_NoAddressNeverDialed ==
    [][\A w \in Workers :
         /\ (wpc[w] = "select" /\ wpc'[w] \notin {"select", "done"}
               /\ wpid'[w] \in DOMAIN db /\ db[wpid'[w]].MAddrs = {})
            => wpc'[w] = "noaddr"
         /\ wpc'[w] = "connect" => wp'[w].MAddrs # {}
         /\ (wpc[w] = "noaddr" /\ wpc'[w] # "noaddr")
            => /\ wpc'[w] \in {"select", "panic"}
               /\ wpc'[w] = "select" => nPeerReq' = nPeerReq + 1
               /\ blacklist' = blacklist /\ db' = db
      ]_vars

\* a worker is in the no-address branch with a stored peer without addresses
C7_Witness ==
    \E w \in Workers :
        /\ wpc[w] = "noaddr" /\ wok[w]
        /\ wpid[w] \in DOMAIN db /\ db[wpid[w]].MAddrs = {}

\* C8: a worker that could not load the peer it received drops the item: it
\* does not go on to the addresses of the missing record, to a dial or to
\* the request at the end of the cycle.
C8_NotFoundDropped ==
    \A w \in Workers : wpc[w] \in {"noaddr", "connect", "req"} => wok[w]

\* C9: no step of a PeerStore operation lowers the stored attempts of a peer.
C9_AttemptsMonotone ==
    [][\A id \in DOMAIN PeerStore : PeerStore'[id].Attempts >= PeerStore[id].Attempts
      ]_vars

\* C10: every stored peer with succeed set has attempted set.
C10_SucceedImpliesAttempted ==
    \A id \in DOMAIN PeerStore : PeerStore[id].Succeed => PeerStore[id].Attempted

\* a stored peer has a successful attempt
C10_Witness ==
    \E id \in DOMAIN PeerStore : PeerStore[id].Succeed /\ PeerStore[id].Attempts > 0


\* the counters and the event history of a Peer
Counters(p) == <<p.Attempts, p.NegAttempts, p.Connections, p.Disconnections, p.Msgs>>
CountersGeq(p, q) == \A i \in 1..Len(Counters(p)) : Counters(p)[i] >= Counters(q)[i]

\* C11: when StoreOrUpdate(P') stores over the peer P it found, no counter
\* of the stored record is below P's, the attempt state is P's and the
\* observed fields are those of P'; when it found no peer, P' is stored as
\* given.
C11_StoreOrUpdatePreserves ==
    [][\A g \in Callers :
         (call[g].op \in {"StoreNew", "StoreMerged"} /\ call'[g].op = "idle") =>
            LET stored == PeerStore'[call[g].id] IN
            IF call[g].op = "StoreMerged"
            THEN /\ CountersGeq(stored, call[g].peer)
                 /\ stored.Attempted = call[g].peer.Attempted
                 /\ stored.Succeed = call[g].peer.Succeed
                 /\ stored.UserAgent = call[g].new.UserAgent
            ELSE stored = call[g].new
      ]_vars

\* StoreOrUpdate found a peer with a counter above 0 and brings another
\* user agent
C11_Witness ==
    \E g \in Callers :
        /\ call[g].op = "StoreMerged"
        /\ call[g].peer.Attempts > 0 /\ call[g].peer.Msgs > 0
        /\ call[g].new.Attempts = 0
        /\ call[g].new.UserAgent # call[g].peer.UserAgent


\* the identity and attempt state of a Peer, which a reset leaves alone
Identity(p) == <<p.PeerId, p.UserAgent, p.Attempts, p.Attempted, p.Succeed,
                 p.Error, p.NegAttempts>>

\* C12: ResetDynamicMetrics visits every key that is in the store and
\* returns after the last one; for each key it stores a record whose
\* connection, disconnection and message counters are 0 and whose identity is
\* that of the record it was handed, under the same key; it adds and removes
\* no key and changes no other record; an event stored for a record read
\* after the reset counts from 0.
C12_ResetZeroesCounters ==
    [][\A g \in Callers :
         /\ (call[g].op = "idle" /\ call'[g].op \in {"Range", "RangeStore"}) =>
               call'[g].todo = DOMAIN PeerStore
         /\ (call[g].op \in {"Range", "RangeStore"} /\ call'[g].op = "idle") =>
               call[g].todo = {}
         /\ (call[g].op = "RangeStore" /\ call'[g].op # "RangeStore") =>
               LET k == call[g].id
                   stored == PeerStore'[k] IN
               /\ stored.Connections = 0 /\ stored.Disconnections = 0
               /\ stored.Msgs = 0
               /\ stored.PeerId = k
               /\ Identity(stored) = Identity(call[g].peer)
               /\ DOMAIN PeerStore' = DOMAIN PeerStore
               /\ \A j \in DOMAIN PeerStore \ {k} : PeerStore'[j] = PeerStore[j]
         /\ (call[g].op = "MessageEvent" /\ call'[g].op = "idle"
             /\ call[g].peer.Msgs = 0) => PeerStore'[call[g].id].Msgs = 1
         /\ (call[g].op = "ConnectionEvent" /\ call'[g].op = "idle"
             /\ call[g].peer.Connections = 0) =>
               PeerStore'[call[g].id].Connections = 1
      ]_vars

\* the reset is handed a peer with events counted, and has one more key to
\* visit
C12_Witness ==
    \E g \in Callers :
        /\ call[g].op = "RangeStore"
        /\ call[g].peer.Msgs > 0
        /\ call[g].todo # {}
        /\ PeerStore[call[g].id] = call[g].peer


\* the caller g is about to store a failed connection attempt
NegativeAttempt(g) ==
    \/ call[g].op = "AddNewNegConnectionAttempt"
    \/ call[g].op = "ConnectionAttemptEvent" /\ ~call[g].arg.succeed

\* C13: when a negative connection attempt is stored for a peer, the stored
\* attempts are one more than those of the record it read, attempted is true
\* and the stored error is the classification of this attempt's error string,
\* whatever the record's earlier attempts were.
C13_NegAttemptRecordsError ==
    [][\A g \in Callers :
         (NegativeAttempt(g) /\ call'[g].op = "idle") =>
            LET stored == PeerStore'[call[g].id] IN
            /\ stored.Attempts = call[g].peer.Attempts + 1
            /\ stored.Attempted
            /\ stored.Error = FilterError(call[g].arg.err)
      ]_vars


\* C14: no step removes a key of the PeerStore, and a step that blacklists a
\* peer leaves the PeerStore, that peer's record included, as it was.
C14_NoPeerDeleted ==
    [][/\ DOMAIN PeerStore \subseteq DOMAIN PeerStore'
       /\ (blacklist' # blacklist) => PeerStore' = PeerStore
      ]_vars

\* a peer with a record is blacklisted, and a key was added to the store
C14_Witness ==
    /\ \E p \in blacklist : p \in DOMAIN PeerStore /\ PeerStore[p].Attempts > 0
    /\ DOMAIN PeerStore = PeerIds

\* C15: blacklisting a peer a second time gives the set, and so the
\* isBlacklisted answers, of blacklisting it once; a worker that blacklists
\* a peer that is already blacklisted leaves the blacklist and the feed's
\* array and cursor as they were.
C15_BlacklistIdempotent ==
    [][/\ \A p \in PeerIds :
            LET once == Blacklist(blacklist, p)
                twice == Blacklist(once, p) IN
            /\ twice = once
            /\ p \in twice
            /\ \A q \in PeerIds : (q \in twice) = (q \in once)
       /\ \A w \in Workers :
            (wpc[w] = "connect" /\ wpc'[w] = "req" /\ werr'[w] # NilErr
             /\ isBlacklisted(wpid[w])) =>
                /\ blacklist' = blacklist
                /\ pArray' = pArray /\ pointer' = pointer
                /\ refreshFlag' = refreshFlag
      ]_vars

\* two workers have each blacklisted the same peer
C15_Witness ==
    \E v, w \in Workers :
        /\ v # w /\ wpid[v] = wpid[w] /\ wpid[v] \in blacklist
        /\ wpc[v] = "req" /\ wpc[w] = "req"
        /\ werr[v] # NilErr /\ werr[w] # NilErr


\* the id of a message with no data: base64url of the SHA-256 of nothing
EmptyDataId ==
    <<"4", "7", "D", "E", "Q", "p", "j", "8", "H", "B", "S", "a", "-", "_", "T",
      "I", "m", "W", "-", "5", "J", "C", "e", "u", "Q", "e", "R", "k", "m", "5",
      "N", "M", "p", "J", "W", "Z", "G", "3", "h", "S", "u", "F", "U", "=">>

\* C16: every message gets an id, also one with no data; the id is 44
\* characters, 43 of the URL-safe alphabet and one of padding, and decodes
\* to the 32 bytes of the SHA-256 of the message's data; two messages
\* with the same data have the same id whatever their sender, sequence
\* number and topic.
C16_MsgIdFromDataOnly ==
    msgId # <<>> =>
        /\ Len(msgId) = 44
        /\ \A i \in 1..43 : msgId[i] \in {encodeURL[k] : k \in 1..64}
        /\ \A i \in 1..44 : msgId[i] \notin {"+", "/"}
        /\ msgId[44] = "="
        /\ DecodeString(URLEncoding, msgId) = Digest[pmsg.Data]
        /\ Len(Digest[pmsg.Data]) = 32
        /\ (pmsg.Data = <<>>) => msgId = EmptyDataId
        /\ (prevId # <<>> /\ prevMsg.Data = pmsg.Data) => prevId = msgId

\* two messages with no data, from different senders, with different
\* sequence numbers, on different topics
C16_Witness ==
    /\ msgId # <<>> /\ prevId # <<>>
    /\ pmsg.Data = <<>> /\ prevMsg.Data = <<>>
    /\ pmsg.From # prevMsg.From /\ pmsg.Seqno # prevMsg.Seqno
    /\ pmsg.Topic # prevMsg.Topic


\* crawlNetwork returns right after c.cancel(), and Run right after
\* crawlNetwork
RunReturned == ctxDone

\* C17: when the run has returned after an interrupt, the feed and every
\* worker have shut down.
C17_RunWaitsForSubordinates ==
    RunReturned => (fpc = "done" /\ \A w \in Workers : wpc[w] = "done")


\* how many entries of the array hold the id
Count(arr, id) == Cardinality({i \in DOMAIN arr : arr[i] = id})

\* C18: a refresh leaves in the array each peer of the store that is not
\* blacklisted exactly once and no other entry, so that the array is not
\* longer than the store has peers.
C18_RefreshRebuildsArray ==
    [][(pArray' # pArray) =>
          /\ \A id \in PeerIds :
               Count(pArray', id) = IF id \in DOMAIN db' /\ id \notin blacklist'
                                    THEN 1 ELSE 0
          /\ Len(pArray') <= Cardinality(DOMAIN db')
      ]_vars

\* C19: the array is refreshed only with the cursor at or past its end (an
\* empty array included), and a request handled with the cursor there does
\* refresh it.
C19_RefreshOnlyAtEnd ==
    [][/\ (pArray' # pArray) => pointer >= Len(pArray)
       /\ (fpc = "refresh" /\ fpc' = "select" /\ pointer >= Len(pArray)) =>
             pArray' # pArray
      ]_vars

\* C20: the feed never reads the array at a cursor that is not one of its
\* indexes.
C20_CursorInBounds == fpc # "panic"


\* the request the feed has taken from nPeerReq and not yet answered,
\* re-issued or dropped
FeedHolds == IF fpc \in {"reissue", "push", "sleep"} THEN 1 ELSE 0

\* the workers that wait for the answer to their request
Requesting == {w \in Workers : wpc[w] = "select"}

\* C21: before the cancellation, the requests in nPeerReq, the ids in
\* nPeerChan and the request the feed is handling are together no more than
\* the workers that wait for an answer, one request each, and so no more
\* than the worker count; the feed then finds room in nPeerReq when it
\* re-issues a request and in nPeerChan when it pushes an id.
C21_ChannelsNeverFull ==
    ~ctxDone =>
        /\ nPeerReq + Len(nPeerChan) + FeedHolds <= Cardinality(Requesting)
        /\ Cardinality(Requesting) <= workers
        /\ (~Crashed) =>
              nPeerReq + Len(nPeerChan) + FeedHolds = Cardinality(Requesting)
        /\ fpc \in {"reissue", "sleep"} => nPeerReq < workers
        /\ fpc = "push" => Len(nPeerChan) < workers

\* every worker waits, and the feed re-issues the request of one of them
\* while the others' requests are in the channels
C21_Witness ==
    /\ ~ctxDone /\ Requesting = Workers
    /\ fpc = "reissue"
    /\ nPeerReq + Len(nPeerChan) = workers - 1


\* the store holds no peer that is not blacklisted
NoLivePeer == DOMAIN db \ blacklist = {}

\* the cursor is at its cap and the feed, still running, takes no request
BoundReached == pointer >= MaxPointer /\ ~Crashed

\* the feed has put the id on nPeerChan, or a worker has just received it
Emitted(id) ==
    \/ \E i \in DOMAIN nPeerChan : nPeerChan[i] = id
    \/ \E w \in Workers : wpid[w] = id /\ wpc[w] \in {"noaddr", "connect"}

\* C22: without a cancellation and with fair scheduling, a worker that
\* waits for a peer is answered with an id as long as the store holds a
\* peer that is not blacklisted, and every stored peer that is not
\* blacklisted is emitted again and again.
C22_EveryPeerEmitted ==
    /\ \A w \in Workers :
         (wpc[w] = "select" /\ ~ctxDone)
            ~> (wpid[w] # ZeroPid \/ ctxDone \/ NoLivePeer \/ BoundReached)
    /\ \A id \in PeerIds :
         (id \in DOMAIN db /\ id \notin blacklist /\ ~ctxDone)
            ~> (Emitted(id) \/ id \in blacklist \/ ctxDone \/ BoundReached)


C24_AbsentPeerRejected ==
    [][\A g \in Callers :
         /\ (call[g].op = "idle" /\ call'[g].op \in EventOps) =>
               /\ call'[g].id \in DOMAIN PeerStore
               /\ PeerStore' = PeerStore
         /\ (call[g].op = "idle" /\ call'[g].op = "NotFound") =>
               /\ call'[g].id \notin DOMAIN PeerStore
               /\ PeerStore' = PeerStore
         /\ (call[g].op = "NotFound" /\ call'[g].op # "NotFound") =>
               /\ call'[g].op = "idle"
               /\ PeerStore' = PeerStore
      ]_vars

\* an event operation has got the error for an id that is not in the
\* store, while another peer is stored
C24_Witness ==
    \E g \in Callers :
        /\ call[g].op = "NotFound"
        /\ call[g].id \notin DOMAIN PeerStore
        /\ PeerStore # <<>>

====
